---------------------------- MODULE Spec2Model ----------------------------
(***************************************************************************)
(* A model of mobair/utils.py: the four utilities that annotate a road     *)
(* network (a networkx MultiDiGraph) and normalise emission tables.        *)
(*                                                                         *)
(*   map_road_list_to_attribute    read-only lookup of an edge attribute   *)
(*   add_edge_emissions            writes a pollutant attribute on edges   *)
(*   add_edge_centrality_measures  writes three centrality attributes      *)
(*   normalize_emissions           rescales pollutant columns of a table   *)
(*                                                                         *)
(* Python values are tagged records (None, numbers, strings, dicts), so    *)
(* that `type(x) == dict` and `x is None` are things the model decides.    *)
(* Floats are exact rationals n/d in lowest terms with d > 0; the float    *)
(* outcomes of a division by 0.0 (nan, inf, -inf) are separate values.     *)
(***************************************************************************)
EXTENDS Integers, Sequences, FiniteSets, TLC

VARIABLES
    road_network,   \* the MultiDiGraph: [nodes, edges, data]
    pre_network,    \* road_network as it was when the last call started
    last,           \* the last call: its name, arguments and return value
    tdf             \* the table normalize_emissions is given

vars == <<road_network, pre_network, last, tdf>>

---------------------------------------------------------------------------
(* Python values *)

NoneVal == [t |-> "None"]

StrVal(s) == [t |-> "str", s |-> s]

DictVal(items) == [t |-> "dict", items |-> items]

NanVal == [t |-> "nan"]

InfVal(sign) == [t |-> "inf", sign |-> sign]

RECURSIVE GCD(_, _)
GCD(a, b) == IF b = 0 THEN a ELSE GCD(b, a % b)

Abs(x) == IF x < 0 THEN -x ELSE x

\* The number n/d (d # 0) in lowest terms with a positive denominator.
Num(n, d) ==
    LET g == GCD(Abs(n), Abs(d))
        s == IF d < 0 THEN -1 ELSE 1
    IN  [t |-> "num", n |-> s * (n \div g), d |-> s * (d \div g)]

IntVal(i) == Num(i, 1)

NumAdd(x, y) == Num(x.n * y.d + y.n * x.d, x.d * y.d)

NumMul(x, y) == Num(x.n * y.n, x.d * y.d)

\* Float division x / y: by 0.0 it gives nan or a signed infinity, it does
\* not raise (numpy / pandas semantics, as used by normalize_emissions).
NumDiv(x, y) ==
    IF y.n = 0
    THEN IF x.n = 0 THEN NanVal ELSE InfVal(IF x.n > 0 THEN 1 ELSE -1)
    ELSE Num(x.n * y.d, x.d * y.n)

\* x * k for a float x that may be nan or infinite and a positive number k.
FloatScale(x, k) == IF x.t = "num" THEN NumMul(x, k) ELSE x

\* dict.get(key, default)
DictGet(items, key, default) ==
    IF key \in DOMAIN items THEN items[key] ELSE default

\* d[key] = value on a dict d (a function from its keys)
DictSet(items, key, value) ==
    [k \in DOMAIN items \cup {key} |-> IF k = key THEN value ELSE items[k]]

\* sum of f[x] over x in S, f a function to numbers (Num records)
RECURSIVE NumSum(_, _)
NumSum(f, S) ==
    IF S = {} THEN IntVal(0)
    ELSE LET x == CHOOSE y \in S : TRUE
         IN  NumAdd(f[x], NumSum(f, S \ {x}))

---------------------------------------------------------------------------
(* The road network: a networkx MultiDiGraph.  edges is the set of        *)
(* (u, v, key) triples and data[e] the attribute dict of edge e.          *)

\* no edge between u and v, at any key
NoEdge(G, u, v) == \A e \in G.edges : ~(e[1] = u /\ e[2] = v)

\* get_edge_data resolving (u, v) against whichever parallel edge comes first
get_edge_data_any_key(G, u, v, key, default) ==
    LET es == {e \in G.edges : e[1] = u /\ e[2] = v}
    IN  IF es = {} THEN default
        ELSE DictVal(G.data[CHOOSE e \in es : \A f \in es : e[3] <= f[3]])

\* MultiDiGraph.get_edge_data(u, v, key, default): the attribute dict of the
\* edge, or default when _adj[u][v][key] raises KeyError.
get_edge_data(G, u, v, key, default) ==
    IF <<u, v, key>> \in G.edges THEN DictVal(G.data[<<u, v, key>>]) ELSE default

\* set(tuple(i) for i in list_roads)
set_roads(list_roads) == {list_roads[i] : i \in DOMAIN list_roads}

\* c_attribute with the else branch yielding None instead of the default
c_attribute_none(c_road, G, attribute_name, default_value) ==
    LET c_dict_attributes == get_edge_data(G, c_road[1], c_road[2], 0, default_value)
    IN  IF c_dict_attributes.t = "dict"
        THEN DictGet(c_dict_attributes.items, attribute_name, default_value)
        ELSE NoneVal

\* The body of the loop: the attribute resolved for one road c_road.
c_attribute(c_road, G, attribute_name, default_value) ==
    LET c_dict_attributes == get_edge_data(G, c_road[1], c_road[2], 0, default_value)
    IN  IF c_dict_attributes.t = "dict"
        THEN DictGet(c_dict_attributes.items, attribute_name, default_value)
        ELSE default_value

map_road_list_to_attribute(list_roads, G, attribute_name, default_value) ==
    [c_road \in set_roads(list_roads) |->
        c_attribute(c_road, G, attribute_name, default_value)]

\* {(u, v): em for [u, v, em] in list}: a later record of a pair wins.
RECURSIVE dict_road_to_cumulate_emissions(_)
dict_road_to_cumulate_emissions(list) ==
    IF list = <<>> THEN <<>>
    ELSE LET n == Len(list)
             r == list[n]
         IN  DictSet(dict_road_to_cumulate_emissions(SubSeq(list, 1, n - 1)),
                     <<r[1], r[2]>>, r[3])

\* The value the try / except of the loop stores on an edge (u, v, key).
c_emissions(dict, e) ==
    IF <<e[1], e[2]>> \in DOMAIN dict THEN dict[<<e[1], e[2]>>] ELSE NoneVal

\* add_edge_emissions with `except KeyError: pass`: an edge without a record
\* is left as it was
add_edge_emissions_skip(list, G, name_of_pollutant) ==
    LET dict == dict_road_to_cumulate_emissions(list)
    IN  [G EXCEPT !.data =
            [e \in G.edges |->
                IF <<e[1], e[2]>> \in DOMAIN dict
                THEN DictSet(G.data[e], name_of_pollutant, c_emissions(dict, e))
                ELSE G.data[e]]]

\* add_edge_emissions storing a record whose pair has no edge as a new edge
\* (u, v, 0), the way road_network.add_edge(u, v, ...) would
add_edge_emissions_add(list, G, name_of_pollutant) ==
    LET dict  == dict_road_to_cumulate_emissions(list)
        added == {<<p[1], p[2], 0>> : p \in {q \in DOMAIN dict : NoEdge(G, q[1], q[2])}}
    IN  [G EXCEPT !.edges = G.edges \cup added,
                  !.data =
            [e \in G.edges \cup added |->
                DictSet(IF e \in G.edges THEN G.data[e] ELSE <<>>,
                        name_of_pollutant, c_emissions(dict, e))]]

\* add_edge_emissions replacing the attribute dict of an edge by a new one
add_edge_emissions_replace(list, G, name_of_pollutant) ==
    LET dict == dict_road_to_cumulate_emissions(list)
    IN  [G EXCEPT !.data =
            [e \in G.edges |->
                DictSet(<<>>, name_of_pollutant, c_emissions(dict, e))]]

\* for u, v, data in road_network.edges(keys=False, data=True): every edge,
\* parallel ones included, gets data[name_of_pollutant] assigned.
add_edge_emissions(list, G, name_of_pollutant) ==
    LET dict == dict_road_to_cumulate_emissions(list)
    IN  [G EXCEPT !.data =
            [e \in G.edges |->
                DictSet(G.data[e], name_of_pollutant, c_emissions(dict, e))]]

---------------------------------------------------------------------------
(* networkx, as add_edge_centrality_measures uses it *)

\* nx.line_graph of a MultiDiGraph: one node per (u, v, key), an edge from
\* (u, v, key) to every edge that leaves v.
line_graph(G) ==
    [nodes |-> G.edges,
     edges |-> {p \in G.edges \X G.edges : p[1][2] = p[2][1]}]

\* Breadth-first levels towards n along the edges of L (networkx measures the
\* incoming distance of a directed graph): <<nodes reached, sum of distances>>.
RECURSIVE sp_towards(_, _, _, _)
sp_towards(L, frontier, seen, depth) ==
    IF frontier = {} THEN <<0, 0>>
    ELSE LET next == {m \in L.nodes \ seen : \E f \in frontier : <<m, f>> \in L.edges}
             rest == sp_towards(L, next, seen \cup next, depth + 1)
         IN  <<Cardinality(frontier) + rest[1], depth * Cardinality(frontier) + rest[2]>>

\* nx.closeness_centrality(L), wf_improved: (r - 1) / totsp * (r - 1) / (N - 1)
closeness_centrality(L) ==
    [n \in L.nodes |->
        LET sp    == sp_towards(L, {n}, {n}, 0)
            len_G == Cardinality(L.nodes)
        IN  IF sp[2] > 0 /\ len_G > 1
            THEN NumMul(Num(sp[1] - 1, sp[2]), Num(sp[1] - 1, len_G - 1))
            ELSE IntVal(0)]

\* in-degree + out-degree of n in L (a self loop counts twice)
degree(L, n) ==
    Cardinality({p \in L.edges : p[1] = n}) + Cardinality({p \in L.edges : p[2] = n})

\* nx.degree_centrality(L): 1 for every node when len(L) <= 1
degree_centrality(L) ==
    [n \in L.nodes |->
        IF Cardinality(L.nodes) <= 1 THEN IntVal(1)
        ELSE Num(degree(L, n), Cardinality(L.nodes) - 1)]

\* set_edge_attributes adding the value to the one already stored
set_edge_attributes_accumulate(G, values, name) ==
    [G EXCEPT !.data =
        [e \in G.edges |->
            IF e \notin DOMAIN values THEN G.data[e]
            ELSE IF name \in DOMAIN G.data[e]
                    /\ G.data[e][name].t = "num" /\ values[e].t = "num"
                 THEN DictSet(G.data[e], name, NumAdd(G.data[e][name], values[e]))
                 ELSE DictSet(G.data[e], name, values[e])]]

\* nx.set_edge_attributes(G, values, name) of a multigraph: G[u][v][key][name]
\* = value for every key of values that is an edge (KeyError is passed over).
set_edge_attributes(G, values, name) ==
    [G EXCEPT !.data =
        [e \in G.edges |->
            IF e \in DOMAIN values THEN DictSet(G.data[e], name, values[e])
            ELSE G.data[e]]]

\* the (u, v) pairs G.edges() yields (keys=False)
edge_pairs(G) == {<<e[1], e[2]>> : e \in G.edges}

\* The weight of the hop u -> v under weight='length': the least length of the
\* parallel edges, an edge without the attribute counting 1.  Lengths are
\* whole numbers here, so the weight is an integer.
weight(G, u, v) ==
    LET ls == {DictGet(G.data[e], "length", IntVal(1)).n :
                  e \in {f \in G.edges : f[1] = u /\ f[2] = v}}
    IN  CHOOSE l \in ls : \A m \in ls : l <= m

\* Dijkstra from the settled nodes of D (node -> distance): settle the nodes
\* at the least tentative distance until no edge leaves the settled set.
RECURSIVE dijkstra(_, _)
dijkstra(G, D) ==
    LET cand == {p \in edge_pairs(G) : p[1] \in DOMAIN D /\ p[2] \notin DOMAIN D}
        tent(p) == D[p[1]] + weight(G, p[1], p[2])
    IN  IF cand = {} THEN D
        ELSE LET best == CHOOSE p \in cand : \A q \in cand : tent(p) <= tent(q)
                 new  == {p[2] : p \in {q \in cand : tent(q) = tent(best)}}
             IN  dijkstra(G, [v \in DOMAIN D \cup new |->
                                 IF v \in DOMAIN D THEN D[v] ELSE tent(best)])

\* P[w]: the predecessors of w on shortest paths from the source of D
\* (lengths are positive, so a predecessor is strictly nearer the source)
P(G, D, w) ==
    {v \in DOMAIN D : /\ <<v, w>> \in edge_pairs(G)
                      /\ D[v] + weight(G, v, w) = D[w]
                      /\ D[v] < D[w]}

\* sigma[w]: the number of shortest paths from s to w
RECURSIVE sigma(_, _, _, _)
sigma(G, D, s, w) ==
    IF w = s THEN IntVal(1)
    ELSE NumSum([v \in P(G, D, w) |-> sigma(G, D, s, v)], P(G, D, w))

\* _accumulate_edges: c = sigma[v] * (1 + delta[w]) / sigma[w] is what the
\* paths from s add to edge (v, w), and delta[v] sums c over the w it precedes.
RECURSIVE delta(_, _, _, _)
accumulate_c(G, D, s, v, w) ==
    NumMul(sigma(G, D, s, v),
           NumDiv(NumAdd(IntVal(1), delta(G, D, s, w)), sigma(G, D, s, w)))

delta(G, D, s, v) ==
    LET ws == {w \in DOMAIN D : v \in P(G, D, w)}
    IN  NumSum([w \in ws |-> accumulate_c(G, D, s, v, w)], ws)

\* _rescale_e with normalized=False
rescale_e_unnormalized(n) == IntVal(1)

\* _rescale_e, normalized and directed: 1 / (n (n - 1)), no scaling for n <= 1
rescale_e(n) == IF n <= 1 THEN IntVal(1) ELSE Num(1, n * (n - 1))

\* nx.edge_betweenness_centrality(G, normalized=True, weight='length'): a dict
\* over the (u, v) pairs of G.edges(), every pair starting at 0.0.
edge_betweenness_centrality(G) ==
    [p \in edge_pairs(G) |->
        LET from(s) == LET D == dijkstra(G, [v \in {s} |-> 0])
                       IN  IF p[1] \in DOMAIN D /\ p[2] \in DOMAIN D
                              /\ p[1] \in P(G, D, p[2])
                           THEN accumulate_c(G, D, s, p[1], p[2])
                           ELSE IntVal(0)
        IN  NumMul(NumSum([s \in G.nodes |-> from(s)], G.nodes),
                   rescale_e(Cardinality(G.nodes)))]

\* key[1:] in place of key[:-1]
key_prefix_tail(key) == <<key[2], key[3]>>

\* key[:-1] of an edge key (u, v, key)
key_prefix(key) == <<key[1], key[2]>>

\* the lookup made with the whole (u, v, key) instead of its prefix
edge_bcentrality__corrected_full_key(G, edge_bcentrality) ==
    [key \in G.edges |->
        IF key \in DOMAIN edge_bcentrality THEN edge_bcentrality[key] ELSE NoneVal]

\* edge_bcentrality__corrected: the betweenness of each (u, v, key), looked up
\* by its (u, v) prefix, None when the result has no such pair.
edge_bcentrality__corrected(G, edge_bcentrality) ==
    [key \in G.edges |->
        IF key_prefix(key) \in DOMAIN edge_bcentrality
        THEN edge_bcentrality[key_prefix(key)]
        ELSE NoneVal]

add_edge_centrality_measures(G) ==
    LET road_network_line == line_graph(G)
        G1 == set_edge_attributes(G, closeness_centrality(road_network_line),
                                  "closeness_centrality")
        G2 == set_edge_attributes(G1, degree_centrality(road_network_line),
                                  "degree_centrality")
    IN  set_edge_attributes(
            G2, edge_bcentrality__corrected(G2, edge_betweenness_centrality(G2)),
            "betweenness_centrality")

---------------------------------------------------------------------------
(* normalize_emissions.  The two tables are objects of a heap, so that    *)
(* "the copy is written, the input is not" is something the model states. *)

\* float(np.sum(column))
column_sum(column) == NumSum(column, DOMAIN column)

\* the copy forgotten: the result is the input object itself
df_copy_alias(heap) == [ref |-> "input", heap |-> heap]

\* tdf_with_emissions.copy(): a new object holding the same columns
df_copy(heap) == [ref |-> "copy", heap |-> [heap EXCEPT !["copy"] = heap["input"]]]

\* One round of the loop: column c_pollutant of the table at ref becomes the
\* input's column divided by the input's column total (times 100).
normalize_column(heap, ref, c_pollutant, percentage) ==
    LET column        == heap["input"][c_pollutant]
        tot_emissions == column_sum(column)
    IN  [heap EXCEPT ![ref][c_pollutant] =
            [i \in DOMAIN column |->
                IF percentage
                THEN FloatScale(NumDiv(column[i], tot_emissions), IntVal(100))
                ELSE NumDiv(column[i], tot_emissions)]]

RECURSIVE normalize_loop(_, _, _, _)
normalize_loop(heap, ref, list_of_pollutants, percentage) ==
    IF list_of_pollutants = <<>> THEN heap
    ELSE normalize_loop(
            normalize_column(heap, ref, Head(list_of_pollutants), percentage),
            ref, Tail(list_of_pollutants), percentage)

\* The call: what the input table holds afterwards, and the table returned.
normalize_emissions(tdf_with_emissions, percentage, list_of_pollutants) ==
    LET c    == df_copy([input |-> tdf_with_emissions, copy |-> <<>>])
        heap == normalize_loop(c.heap, c.ref, list_of_pollutants, percentage)
    IN  [input |-> heap["input"], returned |-> heap[c.ref]]

---------------------------------------------------------------------------
(* The networks and the arguments the calls are given *)

\* the most edges a network holds
MaxEdges == 3

\* the most rows of an emission table
MaxRows == 2

Nodes == {1, 2, 3}

\* The edges a network is built from: parallel edges (1, 2, 0) and (1, 2, 1),
\* edges at key 1 whose key 0 may be missing, a self loop, a cycle 1-2-3.
CandidateEdges ==
    {<<1, 2, 0>>, <<1, 2, 1>>, <<2, 3, 0>>, <<2, 3, 1>>,
     <<3, 1, 0>>, <<1, 3, 0>>, <<3, 3, 0>>}

\* The attributes an edge has when the network is handed over: a length on
\* every edge, a maxspeed on some.
initial_data(e) ==
    LET length == IF e = <<1, 3, 0>> THEN 2 ELSE 1
    IN  IF e \in {<<1, 2, 0>>, <<1, 2, 1>>, <<2, 3, 1>>}
        THEN [length |-> IntVal(length), maxspeed |-> IntVal(30 + 20 * e[3])]
        ELSE [length |-> IntVal(length)]

Network(E) == [nodes |-> Nodes, edges |-> E, data |-> [e \in E |-> initial_data(e)]]

Networks == {Network(E) : E \in {S \in SUBSET CandidateEdges : Cardinality(S) <= MaxEdges}}

\* list_roads: pairs and longer tuples, a repeated road, roads off the network
RoadLists ==
    {<<<<1, 2>>, <<2, 3>>, <<3, 1>>, <<1, 2>>, <<2, 1>>>>,
     <<<<1, 2, 1>>, <<2, 3, 1>>, <<1, 3>>, <<3, 3, 0>>, <<4, 1>>>>}

AttributeNames == {"maxspeed", "CO_2"}

\* default_value: an int, a string, a dict
DefaultValues == {IntVal(0), StrVal("unknown"), DictVal([maxspeed |-> IntVal(90)])}

\* name_of_pollutant: "Must be in {'CO_2', 'NO_x', 'PM', 'VOC'}"
Pollutants == {"CO_2", "NO_x"}

\* list_road_to_cumulate_emissions: [u, v, cumulate_emissions] records, one
\* list with a pair recorded twice
EmissionLists ==
    {<<<<1, 2, IntVal(3)>>, <<2, 3, IntVal(4)>>, <<1, 2, IntVal(5)>>>>,
     <<<<3, 1, IntVal(7)>>, <<2, 1, IntVal(8)>>>>}

EmptyTable == <<>>

\* a table of up to MaxRows rows: two pollutant columns and one other column
Columns == {"CO_2", "NO_x", "lat"}

EmissionValues == {-1, 0, 1, 3}

Tables ==
    UNION {{[c \in Columns |->
                [i \in 1..n |-> IntVal(IF c = "lat" THEN 40 + i ELSE f[c][i])]] :
            f \in [{"CO_2", "NO_x"} -> [1..n -> EmissionValues]]} : n \in 0..MaxRows}

PollutantLists ==
    {<<>>, <<"CO_2">>, <<"NO_x">>, <<"CO_2", "NO_x">>, <<"NO_x", "CO_2", "NO_x">>}

---------------------------------------------------------------------------
(* The calls *)

Init ==
    /\ road_network \in Networks
    /\ pre_network = road_network
    /\ last = [op |-> "none"]
    /\ tdf = EmptyTable

MapRoadListToAttribute ==
    \E list_roads \in RoadLists, attribute_name \in AttributeNames,
       default_value \in DefaultValues :
        /\ last' = [op |-> "map_road_list_to_attribute",
                    list_roads |-> list_roads,
                    attribute_name |-> attribute_name,
                    default_value |-> default_value,
                    returned |-> map_road_list_to_attribute(
                        list_roads, road_network, attribute_name, default_value)]
        /\ pre_network' = road_network
        /\ UNCHANGED <<road_network, tdf>>

AddEdgeEmissions ==
    \E list \in EmissionLists, name_of_pollutant \in Pollutants :
        /\ road_network' = add_edge_emissions(list, road_network, name_of_pollutant)
        /\ pre_network' = road_network
        /\ last' = [op |-> "add_edge_emissions", list |-> list,
                    name_of_pollutant |-> name_of_pollutant]
        /\ UNCHANGED tdf

AddEdgeCentralityMeasures ==
    /\ road_network' = add_edge_centrality_measures(road_network)
    /\ pre_network' = road_network
    /\ last' = [op |-> "add_edge_centrality_measures"]
    /\ UNCHANGED tdf

Next == MapRoadListToAttribute \/ AddEdgeEmissions \/ AddEdgeCentralityMeasures

Spec == Init /\ [][Next]_vars

\* normalize_emissions works on a table alone
InitNorm ==
    /\ road_network = Network({})
    /\ pre_network = road_network
    /\ last = [op |-> "none"]
    /\ tdf \in Tables

NormalizeEmissions ==
    \E percentage \in BOOLEAN, list_of_pollutants \in PollutantLists :
        LET call == normalize_emissions(tdf, percentage, list_of_pollutants)
        IN  /\ tdf' = call.input
            /\ last' = [op |-> "normalize_emissions", given |-> tdf,
                        percentage |-> percentage,
                        list_of_pollutants |-> list_of_pollutants,
                        returned |-> call.returned]
            /\ UNCHANGED <<road_network, pre_network>>

NextNorm == NormalizeEmissions

SpecNorm == InitNorm /\ [][NextNorm]_vars

---------------------------------------------------------------------------
(* The claims *)

Mapped == last.op = "map_road_list_to_attribute"

\* edges between u and v, none of them at key 0
OnlyOtherKeys(G, u, v) == ~NoEdge(G, u, v) /\ <<u, v, 0>> \notin G.edges

\* the default is a dict that has the requested attribute as a key
DefaultCarriesAttribute ==
    /\ last.default_value.t = "dict"
    /\ last.attribute_name \in DOMAIN last.default_value.items

\* C1 as stated: whatever the default value, every queried road whose (u, v)
\* has no edge in the network is mapped to exactly the default value.
C1_AnyDefault ==
    Mapped =>
        \A c_road \in set_roads(last.list_roads) :
            NoEdge(road_network, c_road[1], c_road[2]) =>
                /\ c_road \in DOMAIN last.returned
                /\ last.returned[c_road] = last.default_value

\* C1 amended: every queried road whose (u, v) has no edge in the network is
\* mapped to exactly the default value, for every default value that is not
\* a dict holding the requested attribute name as a key.
C1_MissingEdgeGivesDefault ==
    (Mapped /\ ~DefaultCarriesAttribute) =>
        \A c_road \in set_roads(last.list_roads) :
            NoEdge(road_network, c_road[1], c_road[2]) =>
                /\ c_road \in DOMAIN last.returned
                /\ last.returned[c_road] = last.default_value

\* a non-empty network, a dict default without the attribute, a road off the
\* network mapped to that default
C1_Witness ==
    /\ Mapped
    /\ road_network.edges # {}
    /\ last.default_value.t = "dict"
    /\ ~DefaultCarriesAttribute
    /\ \E c_road \in DOMAIN last.returned :
        /\ NoEdge(road_network, c_road[1], c_road[2])
        /\ last.returned[c_road] = last.default_value

\* C2 as stated: a road whose node pair has edges only at keys other than 0
\* is mapped to the default value, whether it is a pair or a longer tuple.
C2_AnyDefault ==
    Mapped =>
        \A c_road \in DOMAIN last.returned :
            OnlyOtherKeys(road_network, c_road[1], c_road[2]) =>
                last.returned[c_road] = last.default_value

\* C2 amended: a road whose node pair has edges only at keys other than 0 is
\* mapped to the default value, pair or longer tuple, even when one of those
\* edges carries the attribute, for every default value that is not a dict
\* holding the requested attribute name as a key.
C2_KeyZeroOnly ==
    (Mapped /\ ~DefaultCarriesAttribute) =>
        \A c_road \in DOMAIN last.returned :
            OnlyOtherKeys(road_network, c_road[1], c_road[2]) =>
                last.returned[c_road] = last.default_value

\* a road given as a triple naming key 1, whose only edge is at key 1 and
\* carries the requested attribute, is mapped to the default
C2_Witness ==
    /\ Mapped
    /\ ~DefaultCarriesAttribute
    /\ \E c_road \in DOMAIN last.returned :
        /\ Len(c_road) = 3
        /\ c_road \in road_network.edges
        /\ OnlyOtherKeys(road_network, c_road[1], c_road[2])
        /\ last.attribute_name \in DOMAIN road_network.data[c_road]
        /\ last.returned[c_road] = last.default_value

Aggregated == last.op = "add_edge_emissions"

\* the indices of the records of list for the pair (u, v)
RecordsOf(list, u, v) == {i \in DOMAIN list : list[i][1] = u /\ list[i][2] = v}

\* C3: after add_edge_emissions every edge (u, v, key) has the pollutant key;
\* its value is the (last) record value of (u, v) when the list records
\* (u, v) and None otherwise, so parallel edges of (u, v) carry one value.
C3_EveryEdgeAnnotated ==
    Aggregated =>
        \A e \in road_network.edges :
            LET rs == RecordsOf(last.list, e[1], e[2])
                d  == road_network.data[e]
            IN  /\ last.name_of_pollutant \in DOMAIN d
                /\ rs # {} => d[last.name_of_pollutant] =
                                 last.list[CHOOSE i \in rs : \A j \in rs : j <= i][3]
                /\ rs = {} => d[last.name_of_pollutant] = NoneVal
                /\ \A f \in road_network.edges :
                     (f[1] = e[1] /\ f[2] = e[2]) =>
                        road_network.data[f][last.name_of_pollutant]
                            = d[last.name_of_pollutant]

\* parallel edges given the later of two records, and an edge set to None
C3_Witness ==
    /\ Aggregated
    /\ \E e, f \in road_network.edges :
        /\ e # f /\ e[1] = f[1] /\ e[2] = f[2]
        /\ Cardinality(RecordsOf(last.list, e[1], e[2])) = 2
        /\ road_network.data[e][last.name_of_pollutant] = IntVal(5)
        /\ road_network.data[f][last.name_of_pollutant] = IntVal(5)
    /\ \E e \in road_network.edges :
        /\ RecordsOf(last.list, e[1], e[2]) = {}
        /\ road_network.data[e][last.name_of_pollutant] = NoneVal

Annotated == last.op = "add_edge_centrality_measures"

CentralityNames ==
    {"closeness_centrality", "degree_centrality", "betweenness_centrality"}

\* the attribute names the last call writes
Written ==
    IF Aggregated THEN {last.name_of_pollutant}
    ELSE IF Annotated THEN CentralityNames
    ELSE {}

\* C4: a call of add_edge_emissions or add_edge_centrality_measures leaves
\* the nodes and the (u, v, key) edges as they were, and every edge attribute
\* other than the pollutant name (resp. the three centrality names) keeps its
\* value; no other attribute appears.  It holds of every call of every run,
\* hence of any sequence of calls.
C4_Frame ==
    (Aggregated \/ Annotated) =>
        /\ road_network.nodes = pre_network.nodes
        /\ road_network.edges = pre_network.edges
        /\ \A e \in pre_network.edges :
            /\ DOMAIN road_network.data[e] = DOMAIN pre_network.data[e] \cup Written
            /\ \A a \in DOMAIN pre_network.data[e] \ Written :
                road_network.data[e][a] = pre_network.data[e][a]

\* an emission call on a network that already carries centralities, a length,
\* a maxspeed and another pollutant: all kept
C4_Witness ==
    /\ Aggregated
    /\ \E e \in road_network.edges :
        /\ CentralityNames \cup {"length", "maxspeed"} \subseteq DOMAIN pre_network.data[e]
        /\ \E p \in Pollutants \ {last.name_of_pollutant} :
            /\ p \in DOMAIN pre_network.data[e]
            /\ pre_network.data[e][p] # NoneVal
            /\ road_network.data[e][p] = pre_network.data[e][p]
        /\ road_network.data[e] # pre_network.data[e]

\* every edge is reachable from every other edge along the line graph
EveryEdgeReachable(G) ==
    LET L == line_graph(G)
    IN  \A f \in L.nodes : sp_towards(L, {f}, {f}, 0)[1] = Cardinality(L.nodes)

\* C5: on a network in which every edge is reachable from every other edge,
\* add_edge_centrality_measures leaves no edge with None as its
\* betweenness_centrality.
C5_NoUnknownBetweenness ==
    (Annotated /\ EveryEdgeReachable(road_network)) =>
        \A e \in road_network.edges :
            /\ "betweenness_centrality" \in DOMAIN road_network.data[e]
            /\ road_network.data[e]["betweenness_centrality"] # NoneVal

\* a cycle of three edges, one of them at key 1, each with a betweenness
C5_Witness ==
    /\ Annotated
    /\ EveryEdgeReachable(road_network)
    /\ Cardinality(road_network.edges) = 3
    /\ \E e \in road_network.edges : e[3] # 0
    /\ \A e \in road_network.edges :
        road_network.data[e]["betweenness_centrality"].t = "num"

\* e is the only edge at its endpoints, and the network has other edges
Isolated(G, e) ==
    /\ e \in G.edges
    /\ G.edges # {e}
    /\ \A f \in G.edges \ {e} : {f[1], f[2]} \cap {e[1], e[2]} = {}

HasCentralities(G) == \A e \in G.edges : CentralityNames \subseteq DOMAIN G.data[e]

\* C7: add_edge_centrality_measures called on a network that already carries
\* the centralities of an earlier call writes the same three values on every
\* edge: what the first call wrote does not reach the second.
C7_Idempotent ==
    (Annotated /\ HasCentralities(pre_network)) =>
        \A e \in road_network.edges : \A a \in CentralityNames :
            road_network.data[e][a] = pre_network.data[e][a]

\* the second of two calls in a row, on edges with non-zero centralities
C7_Witness ==
    /\ Annotated
    /\ pre_network.edges # {}
    /\ HasCentralities(pre_network)
    /\ road_network = pre_network
    /\ \E e \in road_network.edges : \A a \in CentralityNames :
        road_network.data[e][a].t = "num" /\ road_network.data[e][a].n > 0

\* C10: for every edge (u, v, key) the betweenness_centrality attribute is
\* written, and it is the entry of the betweenness result at (u, v) when there
\* is one and None otherwise, so parallel edges of (u, v) get the same value.
C10_KeyReconciliation ==
    Annotated =>
        LET edge_bcentrality == edge_betweenness_centrality(pre_network)
        IN  \A e \in road_network.edges :
                /\ "betweenness_centrality" \in DOMAIN road_network.data[e]
                /\ road_network.data[e]["betweenness_centrality"] =
                      IF <<e[1], e[2]>> \in DOMAIN edge_bcentrality
                      THEN edge_bcentrality[<<e[1], e[2]>>]
                      ELSE NoneVal
                /\ \A f \in road_network.edges :
                      (f[1] = e[1] /\ f[2] = e[2]) =>
                          road_network.data[f]["betweenness_centrality"] =
                              road_network.data[e]["betweenness_centrality"]

\* parallel edges carrying the same non-zero betweenness
C10_Witness ==
    /\ Annotated
    /\ \E e, f \in road_network.edges :
        /\ e # f /\ e[1] = f[1] /\ e[2] = f[2]
        /\ road_network.data[e]["betweenness_centrality"].t = "num"
        /\ road_network.data[e]["betweenness_centrality"].n > 0
        /\ road_network.data[f]["betweenness_centrality"] =
              road_network.data[e]["betweenness_centrality"]

\* what map_road_list_to_attribute returns for the same query on two networks
SameMapping(G, H, list_roads, attribute_name, default_value) ==
    map_road_list_to_attribute(list_roads, G, attribute_name, default_value)
        = map_road_list_to_attribute(list_roads, H, attribute_name, default_value)

\* the centralities add_edge_centrality_measures writes on G and on H agree
SameCentralities(G, H) ==
    LET GC == add_edge_centrality_measures(G)
        HC == add_edge_centrality_measures(H)
    IN  /\ GC.edges = HC.edges
        /\ \A e \in GC.edges : \A a \in CentralityNames :
            GC.data[e][a] = HC.data[e][a]

\* C9 as stated: for any query and any pollutant name, the mapper returns the
\* same before and after add_edge_emissions and leaves the network alone, and
\* the centralities written are the same before and after the other two.
C9_AnyOrder ==
    /\ Mapped => road_network = pre_network
    /\ Aggregated =>
        /\ \A list_roads \in RoadLists, attribute_name \in AttributeNames,
              default_value \in DefaultValues :
                SameMapping(pre_network, road_network,
                            list_roads, attribute_name, default_value)
        /\ SameCentralities(pre_network, road_network)

\* C9 amended: when the attribute the mapper reads is not the pollutant name
\* add_edge_emissions writes, the mapper returns the same before and after
\* add_edge_emissions and leaves the network alone, so the two run in either
\* order; the centralities written by add_edge_centrality_measures are the
\* same before and after the other two, whatever the names.
C9_OrderIndependent ==
    /\ Mapped => road_network = pre_network
    /\ Aggregated =>
        /\ \A list_roads \in RoadLists, attribute_name \in AttributeNames,
              default_value \in DefaultValues :
                attribute_name # last.name_of_pollutant =>
                    SameMapping(pre_network, road_network,
                                list_roads, attribute_name, default_value)
        /\ SameCentralities(pre_network, road_network)

\* emissions written for the first time on an edge at key 0 that carries a
\* maxspeed and a non-zero betweenness
C9_Witness ==
    /\ Aggregated
    /\ \E e \in road_network.edges :
        /\ e[3] = 0
        /\ "maxspeed" \in DOMAIN pre_network.data[e]
        /\ last.name_of_pollutant \notin DOMAIN pre_network.data[e]
        /\ road_network.data[e][last.name_of_pollutant].t = "num"
        /\ add_edge_centrality_measures(road_network)
              .data[e]["betweenness_centrality"].n > 0

Normalized == last.op = "normalize_emissions"

\* the pollutants of the list, as a set
Listed == {last.list_of_pollutants[i] : i \in DOMAIN last.list_of_pollutants}

\* C8: every listed column whose sum is not zero is divided by its own sum
\* (times 100 with percentage) and then sums to 100 with percentage=True and
\* to 1 with percentage=False; the input table is not modified and the
\* columns that are not listed keep their values.
C8_ColumnsSumToWhole ==
    Normalized =>
        /\ tdf = last.given
        /\ DOMAIN last.returned = DOMAIN last.given
        /\ \A c \in DOMAIN last.given \ Listed : last.returned[c] = last.given[c]
        /\ \A c \in Listed :
            LET tot == column_sum(last.given[c])
                k   == IF last.percentage THEN 100 ELSE 1
            IN  tot.n # 0 =>
                  /\ DOMAIN last.returned[c] = DOMAIN last.given[c]
                  /\ \A i \in DOMAIN last.given[c] :
                        last.returned[c][i] =
                            NumMul(NumDiv(last.given[c][i], tot), IntVal(k))
                  /\ column_sum(last.returned[c]) = IntVal(k)

\* two listed columns with different non-zero sums, as percentages
C8_Witness ==
    /\ Normalized
    /\ last.percentage
    /\ Listed = {"CO_2", "NO_x"}
    /\ column_sum(last.given["CO_2"]).n > 1
    /\ column_sum(last.given["NO_x"]).n < 0
    /\ last.returned["CO_2"] # last.given["CO_2"]
    /\ column_sum(last.returned["CO_2"]) = IntVal(100)
    /\ column_sum(last.returned["NO_x"]) = IntVal(100)

====
